---- MODULE Spec2Model ----
(***************************************************************************)
(* A model of the DLA growth engine of dla-simulation                      *)
(* (src/src/simulation.rs): the growth grid, the twelve seed patterns of   *)
(* reset_with_seed, the random-walk stepper step(), resize and the clamped *)
(* adjusters.                                                              *)
(*                                                                         *)
(* Numbers.  usize values are integers.  f32 values are held exactly, as   *)
(* integers over a fixed denominator:                                      *)
(*   - a particle position is a multiple of 1/PosScale of a cell;          *)
(*   - max_radius is held as max_radius_sq = 250000 * max_radius^2, so     *)
(*     that k, k * 1.414 and sqrt(dx^2 + dy^2) for half-cell dx, dy are    *)
(*     all exact and `max` of two radii is `max` of their squares;         *)
(*   - stickiness is held in tenths;                                       *)
(*   - sin and cos of whole degrees come from SinTable, over TrigScale.    *)
(* `x as usize` of a float is truncation, saturating at 0 (AsUsize).       *)
(***************************************************************************)
EXTENDS Integers, Sequences, FiniteSets, TLC

(* ------------------------------ bounds -------------------------------- *)

\* Grid widths MinGrid..MaxWidth and heights MinGrid..MaxHeight are explored.
MaxWidth == 65
MaxHeight == 64
\* The walk loop of step() runs 0..10000 in the code; the model runs it 0..MaxWalk.
MaxWalk == 10
\* step() is called while fewer than MaxSticks particles stuck since the last reset.
MaxSticks == 2
\* max_particles() is read on the grids of 1..MaxSmall cells a side.
MaxSmall == 25
\* The escape of step() is explored on grids of MinEscapeWidth..MaxEscapeWidth cells
\* across, with a walk loop of 0..EscapeWalk.
MinEscapeWidth == 204
MaxEscapeWidth == 206
EscapeWalk == 30
\* The Line seed is stamped on grids of 64..MaxLineWidth cells across.
MaxLineWidth == 84
\* calculate_simulation_size is called for canvases of 1..MaxDisplay glyphs a side.
MaxDisplay == 40
\* capture_frame is followed for recordings of up to MaxFrames frames.
MaxFrames == 3

(* ------------------------- program constants -------------------------- *)

MinGrid == 64
DefaultParticles == 5000
MinParticles == 100
CapacityDivisor == 5
SpawnOffset == 10
MinSpawnRadius == 50
EscapeMultiplier == 2
StepLength == 2
NumSeeds == 15
MaxI32 == 2147483647
BrailleBase == 10240
GlyphWidth == 2
GlyphHeight == 4
LutLast == 255
\* RecordingConfig::default(): pixel_scale
PixelScale == 4
\* should_capture(): the modulus of frame_skip_counter
FrameSkip == 2
MinI32 == -MaxI32 - 1

Patterns ==
    {"Point", "Line", "Cross", "Circle", "Diamond", "Square", "Triangle",
     "Star", "Spiral", "Scatter", "MultiPoint", "XShape"}

(* ------------------------------ numbers ------------------------------- *)

Min(a, b) == IF a <= b THEN a ELSE b
Max(a, b) == IF a >= b THEN a ELSE b
Abs(a) == IF a < 0 THEN -a ELSE a

\* (num / den) as usize for den > 0: truncation, negative values saturate at 0.
AsUsize(num, den) == IF num < 0 THEN 0 ELSE num \div den

\* 10000 * sin(d degrees), d = 0..90, at index d + 1.
SinTable ==
    << 0, 175, 349, 523, 698, 872, 1045, 1219, 1392, 1564,
       1736, 1908, 2079, 2250, 2419, 2588, 2756, 2924, 3090, 3256,
       3420, 3584, 3746, 3907, 4067, 4226, 4384, 4540, 4695, 4848,
       5000, 5150, 5299, 5446, 5592, 5736, 5878, 6018, 6157, 6293,
       6428, 6561, 6691, 6820, 6947, 7071, 7193, 7314, 7431, 7547,
       7660, 7771, 7880, 7986, 8090, 8192, 8290, 8387, 8480, 8572,
       8660, 8746, 8829, 8910, 8988, 9063, 9135, 9205, 9272, 9336,
       9397, 9455, 9511, 9563, 9613, 9659, 9703, 9744, 9781, 9816,
       9848, 9877, 9903, 9925, 9945, 9962, 9976, 9986, 9994, 9998,
       10000 >>
TrigScale == SinTable[91]

SinDeg(d) ==
    LET a == d % 360
    IN  IF a <= 90 THEN SinTable[a + 1]
        ELSE IF a <= 180 THEN SinTable[180 - a + 1]
        ELSE IF a <= 270 THEN -SinTable[a - 180 + 1]
        ELSE -SinTable[360 - a + 1]
CosDeg(d) == SinDeg(d + 90)

\* Positions are multiples of 1/PosScale: half cells, as the grid center is.
PosScale == 1 + 1
\* Radii.  max_radius_sq = 250000 * max_radius^2.  MilliSq(m) is that value for
\* the radius m / 1000 (m even: 1000 * k, or 1414 * k for `k as f32 * 1.414`).
MilliSq(m) == (m * m) \div 4

\* sqrt(dx * dx + dy * dy), squared, for dx = ix - w / 2.0 and dy = iy - h / 2.0.
CellDistSq(ix, iy, w, h) ==
    ((2 * ix - w) * (2 * ix - w) + (2 * iy - h) * (2 * iy - h)) * 62500

\* floor(sqrt(n)) for 0 <= n < 2^31, by bisection on lo^2 <= n < hi^2.
RECURSIVE ISqrtBetween(_, _, _)
ISqrtBetween(n, lo, hi) ==
    IF hi - lo <= 1 THEN lo
    ELSE LET mid == (lo + hi) \div 2
         IN  IF mid * mid <= n THEN ISqrtBetween(n, mid, hi)
             ELSE ISqrtBetween(n, lo, mid)
ISqrt(n) == ISqrtBetween(n, 0, 46341)

(* ---------------------------- seed stamps ----------------------------- *)

\* The stamping state of one reset_with_seed call: the flat indices set to
\* Some(0), the local `count`, and every (x, y) whose grid slot was indexed.
NoStamps == [occ |-> {}, count |-> 0, writes |-> {}]

\* self.grid[y * w + x] = Some(0)
SetCell(st, x, y, w) ==
    [st EXCEPT !.occ = @ \cup {y * w + x}, !.writes = @ \cup {<<x, y>>}]

AddCount(st, n) == [st EXCEPT !.count = @ + n]

\* if self.grid[idx].is_none() { self.grid[idx] = Some(0); count += 1; }
StampNew(st, x, y, w) ==
    IF (y * w + x) \in st.occ
        THEN [st EXCEPT !.writes = @ \cup {<<x, y>>}]
        ELSE AddCount(SetCell(st, x, y, w), 1)

\* if x < w && y < h { StampNew }
StampInGrid(st, x, y, w, h) ==
    IF x < w /\ y < h THEN StampNew(st, x, y, w) ELSE st

\* A faulty center: the width itself, not its half.
WholeWidth(w) == w

\* let cx = self.grid_width / 2;   let cy = self.grid_height / 2;
CenterX(w) == w \div 2
CenterY(h) == h \div 2

\* SeedPattern::Point
PointSeed(w, h) ==
    [SetCell(NoStamps, CenterX(w), CenterY(h), w) EXCEPT !.count = 1]
        @@ [mrsq |-> MilliSq(1000)]

\* SeedPattern::Line
RECURSIVE LineLoop(_, _, _, _, _)
LineLoop(st, x, end_x, cy, w) ==
    IF x >= end_x THEN st ELSE LineLoop(SetCell(st, x, cy, w), x + 1, end_x, cy, w)
\* A faulty half length: the cap of 20 is left out.
QuarterWidth(w) == w \div 4
LineHalfLen(w) == Min(20, w \div 4)
LineSeed(w, h) ==
    LET cy == CenterY(h)
        half_len == LineHalfLen(w)
        start_x == w \div 2 - half_len
        end_x == w \div 2 + half_len
    IN  [LineLoop(NoStamps, start_x, end_x, cy, w) EXCEPT !.count = end_x - start_x]
            @@ [mrsq |-> MilliSq(1000 * half_len)]

\* SeedPattern::Cross: one pass of `for i in 0..arm_len`
CrossArm(st, i, cx, cy, w) ==
    IF cx >= i /\ cy >= i
        THEN AddCount(
                SetCell(SetCell(SetCell(SetCell(st, cx - i, cy, w), cx + i, cy, w),
                                cx, cy - i, w), cx, cy + i, w), 4)
        ELSE st
RECURSIVE CrossLoop(_, _, _, _, _, _)
CrossLoop(st, i, arm_len, cx, cy, w) ==
    IF i >= arm_len THEN st
    ELSE CrossLoop(CrossArm(st, i, cx, cy, w), i + 1, arm_len, cx, cy, w)
ArmLen(w, h) == Min(Min(10, w \div 8), h \div 8)
CrossSeed(w, h) ==
    CrossLoop(NoStamps, 0, ArmLen(w, h), CenterX(w), CenterY(h), w)
        @@ [mrsq |-> MilliSq(1000 * ArmLen(w, h))]

\* SeedPattern::Circle: cx = w / 2.0, x = (cx + radius * cos(angle)) as usize
CircleStamp(st, angle_deg, radius, w, h) ==
    LET x == AsUsize(w * TrigScale + 2 * radius * CosDeg(angle_deg), 2 * TrigScale)
        y == AsUsize(h * TrigScale + 2 * radius * SinDeg(angle_deg), 2 * TrigScale)
    IN  StampInGrid(st, x, y, w, h)
\* `for angle_deg in lo..hi`, in order (in halves, each evaluated before the next)
RECURSIVE CircleLoop(_, _, _, _, _, _)
CircleLoop(st, lo, hi, radius, w, h) ==
    IF lo >= hi THEN st
    ELSE IF hi = lo + 1 THEN CircleStamp(st, lo, radius, w, h)
    ELSE LET mid == (lo + hi) \div 2
             first == CircleLoop(st, lo, mid, radius, w, h)
         IN  IF first.count >= 0 THEN CircleLoop(first, mid, hi, radius, w, h) ELSE st
CircleRadius(w, h) == Min(Min(15, w \div 8), h \div 8)
CircleSeed(w, h) ==
    CircleLoop(NoStamps, 0, 360, CircleRadius(w, h), w, h)
        @@ [mrsq |-> MilliSq(1000 * CircleRadius(w, h))]

\* SeedPattern::Diamond: one pass of `for i in 0..=size`
DiamondStep(st, i, size, cx, cy, w, h) ==
    LET a == IF cx + i < w /\ cy >= size - i
                THEN StampNew(st, cx + i, cy - (size - i), w) ELSE st
        b == IF cx + i < w /\ cy + (size - i) < h
                THEN StampNew(a, cx + i, cy + (size - i), w) ELSE a
        c == IF cx >= i /\ cy >= size - i
                THEN StampNew(b, cx - i, cy - (size - i), w) ELSE b
    IN  IF cx >= i /\ cy + (size - i) < h
            THEN StampNew(c, cx - i, cy + (size - i), w) ELSE c
RECURSIVE DiamondLoop(_, _, _, _, _, _, _)
DiamondLoop(st, i, size, cx, cy, w, h) ==
    IF i > size THEN st
    ELSE DiamondLoop(DiamondStep(st, i, size, cx, cy, w, h), i + 1, size, cx, cy, w, h)
DiamondSize(w, h) == Min(Min(12, w \div 8), h \div 8)
DiamondSeed(w, h) ==
    DiamondLoop(NoStamps, 0, DiamondSize(w, h), CenterX(w), CenterY(h), w, h)
        @@ [mrsq |-> MilliSq(1000 * DiamondSize(w, h))]

\* SeedPattern::Square: `for i in 0..=half_size * 2` (top and bottom edges)
RECURSIVE SquareRows(_, _, _, _, _, _, _)
SquareRows(st, i, half_size, cx, cy, w, h) ==
    IF i > half_size * 2 THEN st
    ELSE LET x == cx - half_size + i
             a == IF x < w /\ cy >= half_size
                     THEN StampNew(st, x, cy - half_size, w) ELSE st
             b == IF x < w /\ cy + half_size < h
                     THEN StampNew(a, x, cy + half_size, w) ELSE a
         IN  IF b.count >= 0 THEN SquareRows(b, i + 1, half_size, cx, cy, w, h) ELSE st
\* `for i in 1..half_size * 2` (left and right edges)
RECURSIVE SquareCols(_, _, _, _, _, _, _)
SquareCols(st, i, half_size, cx, cy, w, h) ==
    IF i >= half_size * 2 THEN st
    ELSE LET y == cy - half_size + i
             a == IF cx >= half_size /\ y < h
                     THEN StampNew(st, cx - half_size, y, w) ELSE st
             b == IF cx + half_size < w /\ y < h
                     THEN StampNew(a, cx + half_size, y, w) ELSE a
         IN  IF b.count >= 0 THEN SquareCols(b, i + 1, half_size, cx, cy, w, h) ELSE st
SquareHalfSize(w, h) == Min(Min(10, w \div 8), h \div 8)
SquareSeed(w, h) ==
    LET half_size == SquareHalfSize(w, h)
        cx == CenterX(w)
        cy == CenterY(h)
    IN  SquareCols(SquareRows(NoStamps, 0, half_size, cx, cy, w, h),
                   1, half_size, cx, cy, w, h)
            @@ [mrsq |-> MilliSq(1414 * half_size)]

\* Triangle and Star hold a float coordinate c as CoordScale * c.
CoordScale == 20 * TrigScale

\* One edge of Triangle / Star: `for i in 0..=steps`, t = i / steps,
\* x = (start.0 + (end.0 - start.0) * t) as usize.  (The loops test the count,
\* which is never negative, so that each stamp is evaluated before the next.)
RECURSIVE EdgeLoop(_, _, _, _, _, _, _)
EdgeLoop(st, i, steps, start, end, w, h) ==
    IF i > steps THEN st
    ELSE LET x == AsUsize(start[1] * steps + (end[1] - start[1]) * i, CoordScale * steps)
             y == AsUsize(start[2] * steps + (end[2] - start[2]) * i, CoordScale * steps)
             next == StampInGrid(st, x, y, w, h)
         IN  IF next.count >= 0 THEN EdgeLoop(next, i + 1, steps, start, end, w, h) ELSE st
\* steps = ((end.0 - start.0).abs().max((end.1 - start.1).abs()) as usize).max(1)
EdgeSteps(start, end) ==
    Max(AsUsize(Max(Abs(end[1] - start[1]), Abs(end[2] - start[2])), CoordScale), 1)
DrawEdge(st, start, end, w, h) ==
    EdgeLoop(st, 0, EdgeSteps(start, end), start, end, w, h)

\* SeedPattern::Triangle: height = size * 0.866, top at cy - height * 0.67,
\* base at cy + height * 0.33, corners at cx -+ size / 2.0
TriangleSize(w, h) == Min(Min(15, w \div 6), h \div 6)
TriangleSeed(w, h) ==
    LET size == TriangleSize(w, h)
        cx == w * (CoordScale \div 2)
        cy == h * (CoordScale \div 2)
        top == <<cx, cy - size * 116044>>
        bottom_left == <<cx - size * (CoordScale \div 2), cy + size * 57156>>
        bottom_right == <<cx + size * (CoordScale \div 2), cy + size * 57156>>
    IN  DrawEdge(DrawEdge(DrawEdge(NoStamps, top, bottom_left, w, h),
                          bottom_left, bottom_right, w, h),
                 bottom_right, top, w, h)
            @@ [mrsq |-> MilliSq(1000 * size)]

\* SeedPattern::Star: ten points, outer_radius and inner_radius = outer * 0.4 in turn
StarOuterRadius(w, h) == Min(Min(15, w \div 8), h \div 8)
StarPoint(i, w, h) ==
    LET r10 == IF i % 2 = 0 THEN 10 * StarOuterRadius(w, h) ELSE 4 * StarOuterRadius(w, h)
        angle == i * 36 + 270
    IN  << w * (CoordScale \div 2) + 2 * r10 * CosDeg(angle),
           h * (CoordScale \div 2) + 2 * r10 * SinDeg(angle) >>
RECURSIVE StarLoop(_, _, _, _)
StarLoop(st, i, w, h) ==
    IF i >= 10 THEN st
    ELSE LET edge == DrawEdge(st, StarPoint(i, w, h), StarPoint((i + 1) % 10, w, h), w, h)
         IN  IF edge.count >= 0 THEN StarLoop(edge, i + 1, w, h) ELSE st
StarSeed(w, h) ==
    StarLoop(NoStamps, 0, w, h) @@ [mrsq |-> MilliSq(1000 * StarOuterRadius(w, h))]

\* SeedPattern::Spiral: r = a * theta with a = max_radius / (3 * TAU) and theta = i
\* degrees, that is r = max_radius * i / 1080
SpiralStamp(st, i, max_r, w, h) ==
    LET x == AsUsize(w * 540 * TrigScale + max_r * i * CosDeg(i), 1080 * TrigScale)
        y == AsUsize(h * 540 * TrigScale + max_r * i * SinDeg(i), 1080 * TrigScale)
    IN  StampInGrid(st, x, y, w, h)
\* `for i in lo..hi`, in order (in halves, each evaluated before the next)
RECURSIVE SpiralLoop(_, _, _, _, _, _)
SpiralLoop(st, lo, hi, max_r, w, h) ==
    IF lo >= hi THEN st
    ELSE IF hi = lo + 1 THEN SpiralStamp(st, lo, max_r, w, h)
    ELSE LET mid == (lo + hi) \div 2
             first == SpiralLoop(st, lo, mid, max_r, w, h)
         IN  IF first.count >= 0 THEN SpiralLoop(first, mid, hi, max_r, w, h) ELSE st
SpiralMaxRadius(w, h) == Min(Min(20, w \div 6), h \div 6)
SpiralSeed(w, h) ==
    SpiralLoop(NoStamps, 0, 1080, SpiralMaxRadius(w, h), w, h)
        @@ [mrsq |-> MilliSq(1000 * SpiralMaxRadius(w, h))]

\* SeedPattern::MultiPoint: the center and four points `spread` away
MultiPointSpread(w, h) == Min(Min(25, w \div 5), h \div 5)
MultiPointSeed(w, h) ==
    LET cx == CenterX(w)
        cy == CenterY(h)
        spread == MultiPointSpread(w, h)
        p1 == StampInGrid(NoStamps, cx, cy, w, h)
        p2 == StampInGrid(p1, cx - spread, cy, w, h)
        p3 == StampInGrid(p2, cx + spread, cy, w, h)
        p4 == StampInGrid(p3, cx, cy - spread, w, h)
    IN  StampInGrid(p4, cx, cy + spread, w, h) @@ [mrsq |-> MilliSq(1000 * spread)]

\* SeedPattern::XShape: one pass of `for i in 0..arm_len`
XShapeStep(st, i, cx, cy, w, h) ==
    LET a == IF cx >= i /\ cy >= i THEN StampNew(st, cx - i, cy - i, w) ELSE st
        b == IF cx + i < w /\ cy + i < h THEN StampNew(a, cx + i, cy + i, w) ELSE a
        c == IF cx + i < w /\ cy >= i THEN StampNew(b, cx + i, cy - i, w) ELSE b
    IN  IF cx >= i /\ cy + i < h THEN StampNew(c, cx - i, cy + i, w) ELSE c
RECURSIVE XShapeLoop(_, _, _, _, _, _, _)
XShapeLoop(st, i, arm_len, cx, cy, w, h) ==
    IF i >= arm_len THEN st
    ELSE XShapeLoop(XShapeStep(st, i, cx, cy, w, h), i + 1, arm_len, cx, cy, w, h)
XShapeSeed(w, h) ==
    XShapeLoop(NoStamps, 0, ArmLen(w, h), CenterX(w), CenterY(h), w, h)
        @@ [mrsq |-> MilliSq(1414 * ArmLen(w, h))]

\* SeedPattern::Scatter.  A draw is <<a, r>>: the angle is a degrees and the
\* radius r / PosScale, 0 <= r / PosScale < scatter_radius.
ScatterRadius(w, h) == Min(Min(20, w \div 6), h \div 6)
ScatterAngles == {0, 90}
ScatterDraws(w, h) ==
    (ScatterAngles \X {0}) \cup {<<0, ScatterRadius(w, h) * PosScale - 1>>}
\* x = (cx as f32 + r * angle.cos()) as usize, and y likewise, then the stamp
ScatterStamp(st, draw, w, h) ==
    LET x == AsUsize(CenterX(w) * PosScale * TrigScale + draw[2] * CosDeg(draw[1]),
                     PosScale * TrigScale)
        y == AsUsize(CenterY(h) * PosScale * TrigScale + draw[2] * SinDeg(draw[1]),
                     PosScale * TrigScale)
    IN  StampInGrid(st, x, y, w, h)
\* `for _ in 0..num_seeds` over the draws that occur, in any order
RECURSIVE ScatterLoop(_, _, _, _)
ScatterLoop(st, draws, w, h) ==
    IF draws = {} THEN st
    ELSE LET d == CHOOSE e \in draws : TRUE
         IN  ScatterLoop(ScatterStamp(st, d, w, h), draws \ {d}, w, h)
ScatterSeed(w, h, draws) ==
    ScatterLoop(NoStamps, draws, w, h) @@ [mrsq |-> MilliSq(1000 * ScatterRadius(w, h))]

\* The match of reset_with_seed: the stamps, the count and the radius of a pattern.
\* `draws` is the set of random draws Scatter makes (unused by the others).
SeedOf(pattern, w, h, draws) ==
    CASE pattern = "Point" -> PointSeed(w, h)
      [] pattern = "Line" -> LineSeed(w, h)
      [] pattern = "Cross" -> CrossSeed(w, h)
      [] pattern = "Circle" -> CircleSeed(w, h)
      [] pattern = "Diamond" -> DiamondSeed(w, h)
      [] pattern = "Square" -> SquareSeed(w, h)
      [] pattern = "Triangle" -> TriangleSeed(w, h)
      [] pattern = "Star" -> StarSeed(w, h)
      [] pattern = "Spiral" -> SpiralSeed(w, h)
      [] pattern = "Scatter" -> ScatterSeed(w, h, draws)
      [] pattern = "MultiPoint" -> MultiPointSeed(w, h)
      [] pattern = "XShape" -> XShapeSeed(w, h)

(* ------------------------------- state -------------------------------- *)

VARIABLES
    grid_width,      \* DlaSimulation.grid_width
    grid_height,     \* DlaSimulation.grid_height
    grid,            \* DlaSimulation.grid: flat index -> arrival index, for the Some slots
    grid_len,        \* self.grid.len()
    num_particles,   \* DlaSimulation.num_particles
    stickiness,      \* DlaSimulation.stickiness, in tenths
    particles_stuck, \* DlaSimulation.particles_stuck
    max_radius_sq,   \* DlaSimulation.max_radius, as 250000 * max_radius^2
    paused,          \* DlaSimulation.paused
    seed_pattern,    \* DlaSimulation.seed_pattern
    pc,              \* "idle" between calls, "walk" inside step(), "panic" once aborted
    particle_x,               \* step(): the particle's x, in 1/PosScale cells
    particle_y,               \* step(): the particle's y, in 1/PosScale cells
    iter,            \* step(): the walk loop's counter
    sticks,          \* particles stuck by step() since the last reset
    stamps,          \* the (x, y) whose slot the last reset_with_seed indexed
    last,            \* the last call made and what it returned
    recorder         \* the application's Recorder

sim == <<grid_width, grid_height, grid, grid_len, num_particles, stickiness,
         particles_stuck, max_radius_sq, paused, seed_pattern>>
walk == <<particle_x, particle_y, iter>>
vars == <<sim, pc, walk, sticks, stamps, last, recorder>>

Widths == MinGrid .. MaxWidth
Heights == MinGrid .. MaxHeight
\* The widths on which the Line seed is stamped: up to where a quarter of the width
\* is above the cap of 20.
LineWidths == MinGrid .. MaxLineWidth

\* A call as `last` records it: the operation, its arguments, the grid size it was
\* made on, and what it returned ("unit" for none, "running" while step() walks).
Called(op, args, ret) ==
    [op |-> op, args |-> args, dims |-> <<grid_width, grid_height>>, ret |-> ret]

(* ------------------------------ Recorder ------------------------------ *)

\* RecordingState::Idle
Idle == [tag |-> "Idle"]

\* Recorder::new(): Idle, no frame buffer, no video size yet.
NewRecorder == [state |-> Idle, frame_buffer |-> FALSE, video |-> <<0, 0>>]

\* A file name is the sequence of its pieces: a stem without a dot, then suffixes.
\* The string functions below act on pieces as the Rust ones act on the characters
\* of names built from these pieces.

\* The names a recording is asked for.
Filenames ==
    {<<"rec">>, <<"rec", ".mp4">>, <<"rec", ".MP4">>, <<"rec", ".webm">>,
     <<"rec", ".gif">>, <<"rec", ".GIF">>, <<"rec", ".mp4", ".webm">>}

\* str::to_lowercase, on one piece and on a name
LowerPiece(piece) ==
    CASE piece = ".MP4" -> ".mp4"
      [] piece = ".GIF" -> ".gif"
      [] OTHER -> piece
ToLowercase(name) == [i \in DOMAIN name |-> LowerPiece(name[i])]

\* str::ends_with(suffix)
EndsWith(name, suffix) == Len(name) > 0 /\ name[Len(name)] = suffix

\* OutputFormat::from_filename
FromFilename(name) ==
    LET lower == ToLowercase(name)
    IN  IF EndsWith(lower, ".gif") THEN "Gif"
        ELSE IF EndsWith(lower, ".webm") THEN "WebM"
        ELSE "Mp4"

\* OutputFormat::extension
Extension(format) ==
    CASE format = "Mp4" -> ".mp4"
      [] format = "WebM" -> ".webm"
      [] format = "Gif" -> ".gif"

\* start(): "Ensure filename has correct extension"
WithExtension(name) ==
    LET format == FromFilename(name)
    IN  IF ~EndsWith(ToLowercase(name), Extension(format))
            THEN Append(name, Extension(format))
            ELSE name

\* str::replace(from, to): every occurrence, case-sensitively
Replace(name, from, to) == [i \in DOMAIN name |-> IF name[i] = from THEN to ELSE name[i]]

\* start(): filename.replace(".mp4", ".gif").replace(".webm", ".gif")
GifFilename(name) == Replace(Replace(name, ".mp4", ".gif"), ".webm", ".gif")

\* start(): the video size, sim size times pixel_scale, made even.
VideoSize(sim_width, sim_height) ==
    <<((sim_width * PixelScale) \div 2) * 2, ((sim_height * PixelScale) \div 2) * 2>>

\* The encoder start() creates for `name` (already with its extension): its kind,
\* the file it writes, and the frames it has taken.
EncoderFor(name, available) ==
    IF FromFilename(name) = "Gif"
        THEN [kind |-> "gif", file |-> name, frames |-> 0]
        ELSE IF available
                 THEN [kind |-> "ffmpeg", file |-> name, frames |-> 0]
                 ELSE [kind |-> "gif", file |-> GifFilename(name), frames |-> 0]

\* RecordingState::Recording { encoder, frame_count: 0, filename, frame_skip_counter: 0 }
Recording(encoder, name) ==
    [tag |-> "Recording", encoder |-> encoder, frame_count |-> 0, filename |-> name,
     frame_skip_counter |-> 0]

\* is_recording()
IsRecording == recorder.state.tag = "Recording"

\* What a recorder call returned.
Ok(value) == [ok |-> TRUE, value |-> value]
Err(msg) == [ok |-> FALSE, msg |-> msg]

\* start(filename, sim_width, sim_height) with the simulation's size.  `available`
\* is what FfmpegEncoder::is_available() finds, `created` whether the encoder's
\* constructor succeeds.
Start(requested, available, created) ==
    /\ pc = "idle"
    /\ IF IsRecording
          THEN /\ last' = Called("start", <<requested>>, Err("Already recording"))
               /\ UNCHANGED recorder
          ELSE LET name == WithExtension(requested)
                   video == VideoSize(grid_width, grid_height)
               IN  IF created
                       THEN /\ recorder' =
                                  [state |-> Recording(EncoderFor(name, available), name),
                                   frame_buffer |-> TRUE,
                                   video |-> video]
                            /\ last' = Called("start", <<requested>>, Ok("unit"))
                       ELSE /\ recorder' = [recorder EXCEPT !.video = video]
                            /\ last' = Called("start", <<requested>>, Err("encoder"))
    /\ UNCHANGED <<sim, pc, walk, sticks, stamps>>

\* A faulty stop: the state is left in place.
StateKept == recorder.state

\* stop(): std::mem::replace(&mut self.state, RecordingState::Idle)
StateReplaced == Idle

\* stop().  `finished` is whether encoder.finish() succeeds; GifEncoder's always
\* does.
Stop(finished) ==
    /\ pc = "idle"
    /\ IF IsRecording
          THEN /\ recorder.state.encoder.kind = "gif" => finished
               /\ recorder' =
                      [recorder EXCEPT !.state = StateReplaced,
                                       !.frame_buffer = IF finished THEN FALSE ELSE @]
               /\ last' = Called("stop", << >>,
                                 IF finished
                                     THEN Ok([frames |-> recorder.state.frame_count,
                                              filename |-> recorder.state.filename])
                                     ELSE Err("finish"))
          ELSE /\ finished
               /\ recorder' = [recorder EXCEPT !.state = StateReplaced]
               /\ last' = Called("stop", << >>, Err("Not recording"))
    /\ UNCHANGED <<sim, pc, walk, sticks, stamps>>

\* A faulty counter: it never leaves 0, so every frame is captured.
StuckSkip(counter) == 0

\* (*frame_skip_counter + 1) % 2
NextSkip(counter) == (counter + 1) % FrameSkip

\* should_capture()
ShouldCapture ==
    /\ pc = "idle"
    /\ IF IsRecording
          THEN LET counter == NextSkip(recorder.state.frame_skip_counter)
               IN  /\ recorder' = [recorder EXCEPT !.state.frame_skip_counter = counter]
                   /\ last' = Called("should_capture", << >>, counter = 0)
          ELSE /\ last' = Called("should_capture", << >>, FALSE)
               /\ UNCHANGED recorder
    /\ UNCHANGED <<sim, pc, walk, sticks, stamps>>

\* capture_frame(simulation, ...).  `added` is whether encoder.add_frame succeeds.
\* Up to MaxFrames frames are recorded.
CaptureFrame(added) ==
    /\ pc = "idle"
    /\ IF ~IsRecording
          THEN /\ added
               /\ last' = Called("capture_frame", << >>, Ok("unit"))
               /\ UNCHANGED recorder
          ELSE IF ~recorder.frame_buffer
                   THEN /\ added
                        /\ last' = Called("capture_frame", << >>, Err("No frame buffer"))
                        /\ UNCHANGED recorder
                   ELSE IF added
                            THEN /\ recorder.state.frame_count < MaxFrames
                                 /\ recorder' =
                                        [recorder EXCEPT
                                            !.state.encoder.frames = @ + 1,
                                            !.state.frame_count = @ + 1,
                                            !.frame_buffer = TRUE]
                                 /\ last' = Called("capture_frame", << >>, Ok("unit"))
                            ELSE /\ recorder' = [recorder EXCEPT !.frame_buffer = FALSE]
                                 /\ last' = Called("capture_frame", << >>,
                                                   Err("add_frame"))
    /\ UNCHANGED <<sim, pc, walk, sticks, stamps>>

(* --------------------------- reset_with_seed -------------------------- *)

\* The sets of draws a Scatter call can make: num_seeds draws, so between one and
\* num_seeds distinct ones.  The other patterns draw nothing.
DrawSets(pattern, w, h) ==
    IF pattern = "Scatter"
        THEN {d \in SUBSET ScatterDraws(w, h) : d # {} /\ Cardinality(d) <= NumSeeds}
        ELSE {{}}

\* A slot index the Vec has: indexing any other panics.
InVec(cell, w, len) ==
    /\ cell[1] >= 0
    /\ cell[2] >= 0
    /\ cell[2] * w + cell[1] < len

\* A faulty clear: the cells of the old structure are left in place.
KeptGrid(g) == g

\* The grid after `vec![None; required_size]` or `fill(None)`, before the stamps.
ClearedGrid(g) == << >>

\* What reset_with_seed stamps, for every pattern, grid size and set of draws
\* the model visits: SeedOf, evaluated once.
SeedKeys ==
    UNION { UNION { UNION { { <<p, w, h, d>> : d \in DrawSets(p, w, h) } :
        h \in Heights } : w \in Widths } : p \in Patterns }
    \cup {<<"Line", w, h, {}>> : w \in LineWidths, h \in Heights}
Seeds == [k \in SeedKeys |-> SeedOf(k[1], k[2], k[3], k[4])]
Seeded(pattern, w, h, draws) == Seeds[<<pattern, w, h, draws>>]

\* reset_with_seed(pattern) on a simulation of w x h cells.
SeedGrid(pattern, w, h) ==
    \E draws \in DrawSets(pattern, w, h) :
        LET seeded == Seeded(pattern, w, h, draws)
            cleared == ClearedGrid(grid)
        IN  /\ grid_len' = w * h
            /\ grid' = [i \in seeded.occ |-> 0] @@ cleared
            /\ seed_pattern' = pattern
            /\ particles_stuck' = seeded.count
            /\ max_radius_sq' = seeded.mrsq
            /\ paused' = FALSE
            /\ stamps' = seeded.writes
            /\ sticks' = 0
            /\ pc' = IF \A c \in seeded.writes : InVec(c, w, w * h)
                        THEN "idle" ELSE "panic"

ResetWithSeed(pattern) ==
    /\ pc = "idle"
    /\ SeedGrid(pattern, grid_width, grid_height)
    /\ last' = Called("reset_with_seed", <<pattern>>, "unit")
    /\ UNCHANGED <<grid_width, grid_height, num_particles, stickiness, walk, recorder>>

\* reset(): reset_with_seed(self.seed_pattern)
Reset ==
    /\ pc = "idle"
    /\ SeedGrid(seed_pattern, grid_width, grid_height)
    /\ last' = Called("reset", << >>, "unit")
    /\ UNCHANGED <<grid_width, grid_height, num_particles, stickiness, walk, recorder>>

(* ------------------------------- Init --------------------------------- *)

\* DlaSimulation::new(width, height): the fields, then reset() with Point.
New(w, h) ==
    LET seeded == SeedOf("Point", w, h, {})
    IN  /\ grid_width = w
        /\ grid_height = h
        /\ grid_len = w * h
        /\ grid = [i \in seeded.occ |-> 0]
        /\ num_particles = DefaultParticles
        /\ stickiness = 10
        /\ particles_stuck = seeded.count
        /\ max_radius_sq = seeded.mrsq
        /\ paused = FALSE
        /\ seed_pattern = "Point"
        /\ pc = "idle"
        /\ particle_x = 0
        /\ particle_y = 0
        /\ iter = 0
        /\ sticks = 0
        /\ stamps = seeded.writes
        /\ last = Called("new", <<w, h>>, "unit")
        /\ recorder = NewRecorder

Init == \E w \in Widths, h \in Heights : New(w, h)

(* ------------------- capacity, adjusters, pause, resize ---------------- *)

\* A faulty capacity: the floor of 100 is left out.
AreaFifth(w, h) == (w * h) \div CapacityDivisor

\* max_particles(): (grid_area / 5).max(100)
MaxParticles(w, h) == Max((w * h) \div CapacityDivisor, MinParticles)

\* A call of max_particles(), which reads the two sizes and returns the capacity.
MaxParticlesCall ==
    /\ pc = "idle"
    /\ last' = Called("max_particles", << >>, MaxParticles(grid_width, grid_height))
    /\ UNCHANGED <<sim, pc, walk, sticks, stamps, recorder>>

\* a + b in i32: the sum when it fits, else the wrapped sum (release build).
WrappingAddI32(a, b) ==
    IF b > 0 /\ a > MaxI32 - b THEN (a + MinI32) + (b + MinI32)
    ELSE IF b < 0 /\ a < MinI32 - b THEN (a - MinI32) + (b - MinI32)
    ELSE a + b
OverflowsI32(a, b) == (b > 0 /\ a > MaxI32 - b) \/ (b < 0 /\ a < MinI32 - b)

\* v.clamp(lo, hi)
Clamp(v, lo, hi) == IF v < lo THEN lo ELSE IF v > hi THEN hi ELSE v

ParticleDeltas == {MinI32, -1000, 1000, MaxI32}

\* adjust_particles(delta).  `self.num_particles as i32 + delta` overflows: a debug
\* build panics there, a release build wraps.
AdjustParticles(delta) ==
    /\ pc = "idle"
    /\ LET max == MaxParticles(grid_width, grid_height)
       IN  \/ /\ num_particles' = Clamp(WrappingAddI32(num_particles, delta), MinParticles, max)
              /\ pc' = "idle"
              /\ last' = Called("adjust_particles", <<delta>>, "unit")
           \/ /\ OverflowsI32(num_particles, delta)
              /\ num_particles' = num_particles
              /\ pc' = "panic"
              /\ last' = Called("adjust_particles", <<delta>>, "panic")
    /\ UNCHANGED <<grid_width, grid_height, grid, grid_len, stickiness, particles_stuck,
                   max_radius_sq, paused, seed_pattern, walk, sticks, stamps, recorder>>

StickinessDeltas == {-9, 9}

\* adjust_stickiness(delta): (self.stickiness + delta).clamp(0.1, 1.0), in tenths
AdjustStickiness(delta) ==
    /\ pc = "idle"
    /\ stickiness' = Clamp(stickiness + delta, 1, 10)
    /\ last' = Called("adjust_stickiness", <<delta>>, "unit")
    /\ UNCHANGED <<grid_width, grid_height, grid, grid_len, num_particles, particles_stuck,
                   max_radius_sq, paused, seed_pattern, pc, walk, sticks, stamps,
                   recorder>>

\* toggle_pause()
TogglePause ==
    /\ pc = "idle"
    /\ paused' = ~paused
    /\ last' = Called("toggle_pause", << >>, "unit")
    /\ UNCHANGED <<grid_width, grid_height, grid, grid_len, num_particles, stickiness,
                   particles_stuck, max_radius_sq, seed_pattern, pc, walk, sticks, stamps,
                   recorder>>

\* A faulty cap: num_particles is left as it was.
KeepParticles(n, max) == n

\* if self.num_particles > max { self.num_particles = max; }
CapParticles(n, max) == IF n > max THEN max ELSE n

\* A faulty size test: every resize is taken for a change of size.
NeverSameSize(new_width, new_height) == FALSE

\* The negation of `new_width != self.grid_width || new_height != self.grid_height`
SameSize(new_width, new_height) == new_width = grid_width /\ new_height = grid_height

\* resize(new_width, new_height)
Resize(new_width, new_height) ==
    /\ pc = "idle"
    /\ last' = Called("resize", <<new_width, new_height>>, "unit")
    /\ IF ~SameSize(new_width, new_height)
          THEN /\ grid_width' = new_width
               /\ grid_height' = new_height
               /\ num_particles' =
                      CapParticles(num_particles, MaxParticles(new_width, new_height))
               /\ SeedGrid(seed_pattern, new_width, new_height)
               /\ UNCHANGED <<stickiness, walk, recorder>>
          ELSE UNCHANGED <<sim, pc, walk, sticks, stamps, recorder>>

(* ------------------------------- step() -------------------------------- *)

\* self.grid_width as f32 / 2.0, in 1/PosScale cells
CenterPos(n) == (n * PosScale) \div 2

\* (self.max_radius + 10.0).max(50.0), in 1/PosScale cells.  ISqrt(max_radius_sq) is
\* floor(500 * max_radius): above 50 the radius is rounded down to the position grid.
SpawnRadius(mrsq) ==
    Max((ISqrt(mrsq) * PosScale) \div 500 + SpawnOffset * PosScale,
        MinSpawnRadius * PosScale)

\* r * angle.cos() and r * angle.sin() for an angle in whole degrees
CosTimes(r, angle) == (r * CosDeg(angle)) \div TrigScale
SinTimes(r, angle) == (r * SinDeg(angle)) \div TrigScale

\* rng.gen_range(0.0..TAU): the angles explored, in degrees.  They are quarter
\* turns, which keep every position on the 1/PosScale lattice: a particle spawns
\* right of or below the center and walks left, toward the seed's row.
SpawnAngles == {0, 90}
WalkAngles == {180}

\* rng.gen::<f32>() is in [0, 1): the draws explored, in tenths
RngTenths == {0, 9}

\* A faulty early return: only the pause stops step().
ReturnsWhenPaused == paused

\* if self.paused || self.particles_stuck >= self.num_particles { return false; }
ReturnsEarly == paused \/ particles_stuck >= num_particles

\* step(), up to the loop, spawning at `angle`: the early return, or the spawn on
\* the circle while fewer than `limit` particles stuck since the last reset.
StepFrom(angle, limit) ==
    /\ pc = "idle"
    /\ IF ReturnsEarly
          THEN /\ last' = Called("step", << >>, "false")
               /\ UNCHANGED <<sim, pc, walk, sticks, stamps, recorder>>
          ELSE /\ sticks < limit
               /\ particle_x' = CenterPos(grid_width)
                                     + CosTimes(SpawnRadius(max_radius_sq), angle)
               /\ particle_y' = CenterPos(grid_height)
                                     + SinTimes(SpawnRadius(max_radius_sq), angle)
               /\ iter' = 0
               /\ pc' = "walk"
               /\ last' = Called("step", << >>, "running")
               /\ UNCHANGED <<sim, sticks, stamps, recorder>>

\* step(), up to the loop.
StepCall == \E angle \in SpawnAngles : StepFrom(angle, MaxSticks)

\* is_complete()
IsComplete == particles_stuck >= num_particles

\* progress(): particles_stuck as f32 / num_particles as f32, in thousandths
ProgressMilli == (1000 * particles_stuck) \div num_particles

\* dist > spawn_radius * 2.0, both sides squared
Escaped(px, py) ==
    LET dx == px - CenterPos(grid_width)
        dy == py - CenterPos(grid_height)
        far == EscapeMultiplier * SpawnRadius(max_radius_sq)
    IN  dx * dx + dy * dy > far * far

\* A faulty test: the border cells pass.
InsideGrid(ix, iy) ==
    ix >= 0 /\ ix < grid_width /\ iy >= 0 /\ iy < grid_height

\* ix > 0 && ix < self.grid_width - 1 && iy > 0 && iy < self.grid_height - 1
Interior(ix, iy) ==
    ix > 0 /\ ix < grid_width - 1 /\ iy > 0 /\ iy < grid_height - 1

\* The 8 neighbours in the order of `for ndy in -1..=1 { for ndx in -1..=1`, as <<ndx, ndy>>.
NeighbourOffsets ==
    << <<-1, -1>>, <<0, -1>>, <<1, -1>>, <<-1, 0>>, <<1, 0>>, <<-1, 1>>, <<0, 1>>, <<1, 1>> >>

\* self.grid[ny * self.grid_width + nx].is_some() for the j-th neighbour of (ix, iy)
NeighbourStuck(ix, iy, j) ==
    ((iy + NeighbourOffsets[j][2]) * grid_width + ix + NeighbourOffsets[j][1]) \in DOMAIN grid

\* The values `should_stick` can end with when the scan is at neighbour j: each
\* stuck neighbour draws once, and the first draw below stickiness breaks out.
RECURSIVE ShouldStick(_, _, _)
ShouldStick(ix, iy, j) ==
    IF j > Len(NeighbourOffsets) THEN {FALSE}
    ELSE IF NeighbourStuck(ix, iy, j)
        THEN UNION {IF u < stickiness THEN {TRUE} ELSE ShouldStick(ix, iy, j + 1) :
                        u \in RngTenths}
        ELSE ShouldStick(ix, iy, j + 1)

\* The numbers of rng.gen::<f32>() draws the scan can make from neighbour j on,
\* n draws made so far: one for each stuck neighbour up to the first draw below
\* stickiness.
RECURSIVE StickDraws(_, _, _, _)
StickDraws(ix, iy, j, n) ==
    IF j > Len(NeighbourOffsets) THEN {n}
    ELSE IF NeighbourStuck(ix, iy, j)
        THEN UNION {IF u < stickiness THEN {n + 1} ELSE StickDraws(ix, iy, j + 1, n + 1) :
                        u \in RngTenths}
        ELSE StickDraws(ix, iy, j + 1, n)

\* return true, leaving the loop
ReturnTrue ==
    /\ pc' = "idle"
    /\ particle_x' = 0
    /\ particle_y' = 0
    /\ iter' = 0
    /\ last' = Called("step", << >>, "true")
    /\ UNCHANGED recorder

\* The arrival index a particle sticking now is stored with.
ArrivalIndex == particles_stuck

\* A faulty stick: the particle is counted twice.
CountTwice(ix, iy) ==
    /\ grid' = ((iy * grid_width + ix) :> ArrivalIndex) @@ grid
    /\ particles_stuck' = particles_stuck + 2
    /\ max_radius_sq' = Max(max_radius_sq, CellDistSq(ix, iy, grid_width, grid_height))
    /\ sticks' = sticks + 1
    /\ ReturnTrue
    /\ UNCHANGED <<grid_width, grid_height, grid_len, num_particles, stickiness, paused,
                   seed_pattern, stamps>>

\* A faulty stick: the new cell replaces the structure.
StickAlone(ix, iy) ==
    /\ grid' = ((iy * grid_width + ix) :> ArrivalIndex)
    /\ particles_stuck' = particles_stuck + 1
    /\ max_radius_sq' = Max(max_radius_sq, CellDistSq(ix, iy, grid_width, grid_height))
    /\ sticks' = sticks + 1
    /\ ReturnTrue
    /\ UNCHANGED <<grid_width, grid_height, grid_len, num_particles, stickiness, paused,
                   seed_pattern, stamps>>

\* `if should_stick { ... return true; }` at cell (ix, iy)
StickAt(ix, iy) ==
    /\ grid' = ((iy * grid_width + ix) :> ArrivalIndex) @@ grid
    /\ particles_stuck' = particles_stuck + 1
    /\ max_radius_sq' = Max(max_radius_sq, CellDistSq(ix, iy, grid_width, grid_height))
    /\ sticks' = sticks + 1
    /\ ReturnTrue
    /\ UNCHANGED <<grid_width, grid_height, grid_len, num_particles, stickiness, paused,
                   seed_pattern, stamps>>

\* The random walk step at walk_angle, and the clamp to bounds.
MoveBy(walk_angle) ==
    /\ particle_x' = Clamp(particle_x + CosTimes(StepLength * PosScale, walk_angle),
                           PosScale, (grid_width - 2) * PosScale)
    /\ particle_y' = Clamp(particle_y + SinTimes(StepLength * PosScale, walk_angle),
                           PosScale, (grid_height - 2) * PosScale)
    /\ iter' = iter + 1
    /\ UNCHANGED <<sim, pc, sticks, stamps, last, recorder>>

\* The loop has run out (`for _ in 0..10000`, here 0..budget), or the particle has
\* escaped.
WalkEndWithin(budget) ==
    /\ pc = "walk"
    /\ iter >= budget \/ Escaped(particle_x, particle_y)
    /\ ReturnTrue
    /\ UNCHANGED <<sim, sticks, stamps>>
WalkEnd == WalkEndWithin(MaxWalk)

\* One pass of the loop body that ends in the stick.
WalkStickWithin(budget) ==
    /\ pc = "walk"
    /\ iter < budget /\ ~Escaped(particle_x, particle_y)
    /\ LET ix == AsUsize(particle_x, PosScale)
           iy == AsUsize(particle_y, PosScale)
       IN  /\ Interior(ix, iy)
           /\ TRUE \in ShouldStick(ix, iy, 1)
           /\ StickAt(ix, iy)
WalkStick == WalkStickWithin(MaxWalk)

\* One pass of the loop body that ends in the walk step at walk_angle.
WalkMoveWithin(walk_angle, budget) ==
    /\ pc = "walk"
    /\ iter < budget /\ ~Escaped(particle_x, particle_y)
    /\ LET ix == AsUsize(particle_x, PosScale)
           iy == AsUsize(particle_y, PosScale)
       IN  Interior(ix, iy) => FALSE \in ShouldStick(ix, iy, 1)
    /\ MoveBy(walk_angle)
WalkMove == \E walk_angle \in WalkAngles : WalkMoveWithin(walk_angle, MaxWalk)

(* --------------------------- the Braille view -------------------------- *)

\* a | b on u8
RECURSIVE BitOr(_, _)
BitOr(a, b) ==
    IF a = 0 THEN b
    ELSE IF b = 0 THEN a
    ELSE Max(a % 2, b % 2) + 2 * BitOr(a \div 2, b \div 2)

\* A faulty table: the top dots of the two columns share a bit.
SharedDots == << <<1, 2, 4, 64>>, <<1, 16, 32, 128>> >>

\* BRAILLE_DOTS[dx][dy], with both indices from 1
BrailleDots == << <<1, 2, 4, 64>>, <<8, 16, 32, 128>> >>

\* get_cell(cx, cy): << >> for None, <<age>> for Some(age)
GetCell(cx, cy) ==
    IF cx < grid_width /\ cy < grid_height
        THEN IF (cy * grid_width + cx) \in DOMAIN grid
                THEN <<grid[cy * grid_width + cx]>> ELSE << >>
        ELSE << >>

\* (braille_x as f32 * scale_x) as usize with scale_x = sim_width / braille_width.
\* On the canvases below the f32 quotient, product and truncation give the floor
\* of the exact quotient.
SampleAt(b, sim_size, braille_size) == (b * sim_size) \div braille_size

\* A faulty scan: the fourth row of dots is never sampled.
SixPositions == << <<0, 0>>, <<0, 1>>, <<0, 2>>, <<1, 0>>, <<1, 1>>, <<1, 2>> >>

\* The sub-positions of a glyph in the order of `for dx in 0..2 { for dy in 0..4`.
SubPositions ==
    << <<0, 0>>, <<0, 1>>, <<0, 2>>, <<0, 3>>, <<1, 0>>, <<1, 1>>, <<1, 2>>, <<1, 3>> >>

\* The simulation cell sub-position d of glyph (cx, cy) samples.
Sampled(cx, cy, d, canvas_width, canvas_height) ==
    GetCell(SampleAt(cx * GlyphWidth + d[1], grid_width, canvas_width * GlyphWidth),
            SampleAt(cy * GlyphHeight + d[2], grid_height, canvas_height * GlyphHeight))

\* The body of the two inner loops from sub-position j on: pattern, total_age and
\* dot_count of glyph (cx, cy).
RECURSIVE Dots(_, _, _, _, _, _)
Dots(acc, j, cx, cy, canvas_width, canvas_height) ==
    IF j > Len(SubPositions) THEN acc
    ELSE LET d == SubPositions[j]
             cell == Sampled(cx, cy, d, canvas_width, canvas_height)
             next == IF cell # << >>
                        THEN [pattern |-> BitOr(acc.pattern, BrailleDots[d[1] + 1][d[2] + 1]),
                              total_age |-> acc.total_age + cell[1],
                              dot_count |-> acc.dot_count + 1]
                        ELSE acc
         IN  IF next.dot_count >= 0
                THEN Dots(next, j + 1, cx, cy, canvas_width, canvas_height)
                ELSE acc

\* char::from_u32(u).unwrap_or(' '): no char for a surrogate or above 0x10FFFF
CharFromU32(u) ==
    IF (u >= 55296 /\ u <= 57343) \/ u > 1114111 THEN 32 ELSE u

\* map_from_lut(color_lut, avg_age * inv_num_particles): the index into the table,
\* (t.clamp(0.0, 1.0) * 255.0) as usize, taken on the exact quotient.
LutIndex(total_age, dot_count) ==
    Clamp((LutLast * total_age) \div (dot_count * num_particles), 0, LutLast)

\* The BrailleCell pushed for glyph (cx, cy) whose dots are `dots`.
BrailleCell(cx, cy, dots, color_by_age) ==
    [x |-> cx, y |-> cy,
     char |-> CharFromU32(BrailleBase + dots.pattern),
     color |-> IF color_by_age /\ dots.dot_count > 0
                  THEN <<"lut", LutIndex(dots.total_age, dots.dot_count)>>
                  ELSE <<"White">>]

\* render_to_braille(simulation, canvas_width, canvas_height, color_lut, color_by_age):
\* the glyphs row by row, and a cell for each whose pattern is not 0.
RenderToBraille(canvas_width, canvas_height, color_by_age) ==
    LET NoDots == [pattern |-> 0, total_age |-> 0, dot_count |-> 0]
        glyphs == [k \in 1 .. canvas_width * canvas_height |->
                      LET cx == (k - 1) % canvas_width
                          cy == (k - 1) \div canvas_width
                      IN  [cx |-> cx, cy |-> cy,
                           dots |-> Dots(NoDots, 1, cx, cy, canvas_width, canvas_height)]]
        drawn == SelectSeq(glyphs, LAMBDA g : g.dots.pattern # 0)
    IN  [k \in 1 .. Len(drawn) |->
            BrailleCell(drawn[k].cx, drawn[k].cy, drawn[k].dots, color_by_age)]

\* The canvases rendered, in glyphs: the one a 64 x 64 grid is sized for, and a
\* small one whose scale is not a whole number.  canvas_width * canvas_height
\* stays within u16.
Canvases == {<<3, 2>>, <<32, 16>>}

\* A faulty renderer: it pauses the simulation it draws.
PausingBorrow == paused' = TRUE /\ UNCHANGED <<grid_width, grid_height, grid, grid_len,
    num_particles, stickiness, particles_stuck, max_radius_sq, seed_pattern, pc, walk,
    sticks, stamps, recorder>>

\* `simulation: &DlaSimulation`: a shared borrow, through which no field is written.
SharedBorrow == UNCHANGED <<sim, pc, walk, sticks, stamps, recorder>>

\* A call of render_to_braille between two operations.
Render(canvas_width, canvas_height, color_by_age) ==
    /\ pc = "idle"
    /\ last' = Called("render_to_braille", <<canvas_width, canvas_height, color_by_age>>,
                      RenderToBraille(canvas_width, canvas_height, color_by_age))
    /\ SharedBorrow

\* A faulty sizing: the floor of 64 cells is left out.
SubCellSize(canvas_width, canvas_height) ==
    <<canvas_width * GlyphWidth, canvas_height * GlyphHeight>>

\* calculate_simulation_size(canvas_width, canvas_height)
CalculateSimulationSize(canvas_width, canvas_height) ==
    <<Max(canvas_width * GlyphWidth, MinGrid), Max(canvas_height * GlyphHeight, MinGrid)>>

\* A call of calculate_simulation_size, as the application makes on a new canvas.
SizeCall(canvas_width, canvas_height) ==
    /\ pc = "idle"
    /\ last' = Called("calculate_simulation_size", <<canvas_width, canvas_height>>,
                      CalculateSimulationSize(canvas_width, canvas_height))
    /\ UNCHANGED <<sim, pc, walk, sticks, stamps, recorder>>

(* ------------------------------- Next ---------------------------------- *)

Next ==
    \/ \E pattern \in Patterns : ResetWithSeed(pattern)
    \/ Reset
    \/ StepCall
    \/ WalkEnd
    \/ WalkStick
    \/ WalkMove
    \/ \E w \in Widths, h \in Heights : Resize(w, h)
    \/ \E delta \in ParticleDeltas : AdjustParticles(delta)
    \/ \E delta \in StickinessDeltas : AdjustStickiness(delta)
    \/ TogglePause

Spec == Init /\ [][Next]_vars

\* max_particles() on the grids around its floor: new(w, h) accepts every size, and
\* below 500 cells a fifth of the area is under 100.
SmallSizes == 1 .. MaxSmall
CapacityInit == \E w \in SmallSizes, h \in SmallSizes : New(w, h)
CapacityNext == MaxParticlesCall
CapacitySpec == CapacityInit /\ [][CapacityNext]_vars

\* calculate_simulation_size on the canvases of 1..MaxDisplay glyphs a side.
DisplaySizes == 1 .. MaxDisplay
SizingNext == \E canvas_width \in DisplaySizes, canvas_height \in DisplaySizes :
                  SizeCall(canvas_width, canvas_height)
SizingSpec == Init /\ [][SizingNext]_vars

\* Growth to a target: a 64 x 64 simulation whose num_particles is set to `target`
\* (main.rs clamps it into [100, max_particles()]) is seeded, and then step() is
\* the only operation called.  The seeds are Line, which the walk of the model
\* reaches, and Spiral.
GrowthTarget == MinParticles
GrowthSeeds == {"Line", "Spiral"}
\* The state main.rs starts the loop in: new(w, h), num_particles = target, then
\* reset_with_seed(pattern).
Started(pattern, w, h, target) ==
    LET seeded == SeedOf(pattern, w, h, {})
    IN  /\ grid_width = w
        /\ grid_height = h
        /\ grid_len = w * h
        /\ grid = [i \in seeded.occ |-> 0]
        /\ num_particles = target
        /\ stickiness = 10
        /\ particles_stuck = seeded.count
        /\ max_radius_sq = seeded.mrsq
        /\ paused = FALSE
        /\ seed_pattern = pattern
        /\ pc = "idle"
        /\ particle_x = 0
        /\ particle_y = 0
        /\ iter = 0
        /\ sticks = 0
        /\ stamps = seeded.writes
        /\ last = Called("reset_with_seed", <<pattern>>, "unit")
        /\ recorder = NewRecorder
GrowthInit ==
    \E pattern \in GrowthSeeds : Started(pattern, MinGrid, MinGrid, GrowthTarget)
GrowthStep(angle) == StepFrom(angle, GrowthTarget)
GrowthNext ==
    \/ \E angle \in SpawnAngles : GrowthStep(angle)
    \/ WalkEnd
    \/ WalkStick
    \/ WalkMove
\* step() runs its loop to the end, and the random number generator leaves no
\* spawn angle out for ever.
GrowthFairness ==
    /\ WF_vars(WalkEnd)
    /\ WF_vars(WalkStick)
    /\ WF_vars(WalkMove)
    /\ \A angle \in SpawnAngles : SF_vars(GrowthStep(angle))
GrowthSpec == GrowthInit /\ [][GrowthNext]_vars /\ GrowthFairness

\* The Line seed on the grids of LineWidths: the simulation is constructed, seeded
\* with Line, paused and resumed, and stepped.
LineInit == \E w \in LineWidths, h \in Heights : New(w, h)
LineNext ==
    \/ ResetWithSeed("Line")
    \/ TogglePause
    \/ StepCall
    \/ WalkEnd
    \/ WalkStick
    \/ WalkMove
LineSpec == LineInit /\ [][LineNext]_vars

\* step() with spawns and walk steps in the four axis directions, on a 64 x 64 grid
\* seeded with Point or Line: the particle spawns right of, below, left of (at
\* x < 0) and above (at y < 0) the grid and roams.
QuarterTurns == {0, 90, 180, 270}
RoamSeeds == {"Point", "Line"}
RoamInit == New(MinGrid, MinGrid)
RoamNext ==
    \/ \E pattern \in RoamSeeds : ResetWithSeed(pattern)
    \/ \E angle \in QuarterTurns : StepFrom(angle, MaxSticks)
    \/ WalkEndWithin(MaxWalk)
    \/ WalkStickWithin(MaxWalk)
    \/ \E walk_angle \in QuarterTurns : WalkMoveWithin(walk_angle, MaxWalk)
RoamSpec == RoamInit /\ [][RoamNext]_vars

\* step() on grids wide enough to escape on: from 205 cells across a particle
\* clamped to the last interior column is more than 2 * spawn_radius = 100 cells
\* from the center.  The Line seed is stamped, particles spawn left and right of it
\* and walk along its row, toward it or away.
EscapeWidths == MinEscapeWidth .. MaxEscapeWidth
AlongRow == {0, 180}
EscapeInit ==
    \E w \in EscapeWidths : Started("Line", w, MinGrid, MaxParticles(w, MinGrid))
EscapeNext ==
    \/ \E angle \in AlongRow : StepFrom(angle, MaxSticks)
    \/ WalkEndWithin(EscapeWalk)
    \/ WalkStickWithin(EscapeWalk)
    \/ \E walk_angle \in AlongRow : WalkMoveWithin(walk_angle, EscapeWalk)
EscapeSpec == EscapeInit /\ [][EscapeNext]_vars

\* The frame loop: the structure is seeded, grown by step() and drawn, in any order.
ViewNext ==
    \/ \E pattern \in Patterns : ResetWithSeed(pattern)
    \/ StepCall
    \/ WalkEnd
    \/ WalkStick
    \/ WalkMove
    \/ \E canvas \in Canvases, color_by_age \in BOOLEAN :
           Render(canvas[1], canvas[2], color_by_age)
ViewSpec == Init /\ [][ViewNext]_vars

\* The recorder beside the simulation: started under every name, with and without
\* FFmpeg, fed frames, and stopped.
RecorderNext ==
    \/ \E requested \in Filenames, available \in BOOLEAN, created \in BOOLEAN :
           Start(requested, available, created)
    \/ \E finished \in BOOLEAN : Stop(finished)
    \/ ShouldCapture
    \/ \E added \in BOOLEAN : CaptureFrame(added)
RecorderSpec == Init /\ [][RecorderNext]_vars

(* ------------------------------- claims -------------------------------- *)

\* The cells that hold an arrival index, and how many there are.
Occupied == DOMAIN grid
OccupiedCount == Cardinality(Occupied)

\* 250000 * d^2 for the largest distance d from the grid center
\* (width / 2, height / 2) to an occupied cell; 0 on an empty grid.
TrueMaxSq ==
    LET dists == {CellDistSq(i % grid_width, i \div grid_width, grid_width, grid_height) :
                      i \in Occupied}
    IN  IF dists = {} THEN 0 ELSE CHOOSE m \in dists : \A d \in dists : d <= m

\* C1: right after reset_with_seed(pattern), for every pattern and grid size,
\* particles_stuck is the number of cells that hold an arrival index.
C1_CountIsOccupied ==
    last.op = "reset_with_seed" => particles_stuck = OccupiedCount

\* C2: every step() call that increments particles_stuck increments it by one and
\* turns exactly one empty cell into an occupied one.
C2_StickFillsEmptyCell ==
    [][(last'.op = "step" /\ particles_stuck' # particles_stuck)
          => /\ particles_stuck' = particles_stuck + 1
             /\ Cardinality(DOMAIN grid') = OccupiedCount + 1]_vars

\* C3: after a step() that returned true, with particles stuck since the last
\* reset_with_seed, max_radius is the largest distance from the grid center to an
\* occupied cell.
C3_MaxRadiusIsTrueMax ==
    (last.op = "step" /\ last.ret = "true" /\ sticks >= 1) => max_radius_sq = TrueMaxSq

\* C4: right after reset_with_seed(pattern), max_radius is at least the largest
\* distance from the grid center to a stamped cell.
C4_MaxRadiusCoversSeed ==
    last.op = "reset_with_seed" => max_radius_sq >= TrueMaxSq

\* C5: reset_with_seed indexes the grid only at cells (x, y) with 0 <= x < width
\* and 0 <= y < height, for every pattern and grid size, and so never panics.
C5_StampsInsideGrid ==
    last.op = "reset_with_seed"
        => /\ pc # "panic"
           /\ \A c \in stamps :
                  c[1] >= 0 /\ c[1] < grid_width /\ c[2] >= 0 /\ c[2] < grid_height

\* A reset_with_seed of the widest pattern, on the widest grid.
C5_Witness ==
    /\ last.op = "reset_with_seed"
    /\ seed_pattern = "MultiPoint"
    /\ grid_width = MaxWidth
    /\ Cardinality(stamps) = 5

\* C6: a step() called while paused, or with particles_stuck >= num_particles,
\* returns false and leaves every field as it was.
C6_StepNoOp ==
    [][(pc = "idle" /\ last'.op = "step" /\ (paused \/ particles_stuck >= num_particles))
          => /\ last'.ret = "false"
             /\ pc' = "idle"
             /\ UNCHANGED <<grid, grid_len, grid_width, grid_height, particles_stuck,
                            max_radius_sq, num_particles, stickiness, paused,
                            seed_pattern>>]_vars

\* step() has returned false on a simulation that is complete and not paused.
C6_Witness ==
    /\ last.op = "step"
    /\ last.ret = "false"
    /\ ~paused
    /\ particles_stuck >= num_particles

\* C7: adjust_particles(delta) completes for every i32 delta and leaves
\* num_particles in [100, max_particles()].
C7_AdjustStaysInRange ==
    last.op = "adjust_particles"
        => /\ last.ret = "unit"
           /\ num_particles >= MinParticles
           /\ num_particles <= MaxParticles(grid_width, grid_height)

\* C8: adjust_particles(delta) with num_particles + delta > max_particles() ends
\* with exactly max_particles(), and with num_particles + delta < 100 ends with
\* exactly 100, without erroring.
C8_AdjustSaturates ==
    [][last'.op = "adjust_particles"
          => LET delta == last'.args[1]
                 max == MaxParticles(grid_width, grid_height)
             IN  /\ delta > max - num_particles
                        => (last'.ret = "unit" /\ num_particles' = max)
                 /\ delta < MinParticles - num_particles
                        => (last'.ret = "unit" /\ num_particles' = MinParticles)]_vars

\* C9: a resize(w, h) to a different size leaves a grid of w * h slots, num_particles
\* at most the new max_particles(), exactly the cells the selected pattern stamps
\* occupied, and seed_pattern as it was.
C9_ResizeReseeds ==
    [][(last'.op = "resize" /\ last'.args # <<grid_width, grid_height>>)
          => LET w == last'.args[1]
                 h == last'.args[2]
             IN  /\ grid_width' = w
                 /\ grid_height' = h
                 /\ grid_len' = w * h
                 /\ num_particles' <= MaxParticles(w, h)
                 /\ \E draws \in DrawSets(seed_pattern, w, h) :
                        DOMAIN grid' = Seeded(seed_pattern, w, h, draws).occ
                 /\ \A i \in DOMAIN grid' : grid'[i] = 0
                 /\ seed_pattern' = seed_pattern]_vars

\* A resize to another size has capped num_particles and re-seeded a pattern.
C9_Witness ==
    /\ last.op = "resize"
    /\ last.dims # <<grid_width, grid_height>>
    /\ seed_pattern = "Line"
    /\ num_particles = MaxParticles(grid_width, grid_height)

\* C10: a resize(w, h) to the current size changes nothing: not the grown
\* structure, particles_stuck, max_radius, num_particles, paused or seed_pattern.
C10_SameSizeResizeNoOp ==
    [][(last'.op = "resize" /\ last'.args = <<grid_width, grid_height>>)
          => UNCHANGED <<grid, grid_len, grid_width, grid_height, particles_stuck,
                         max_radius_sq, num_particles, stickiness, paused,
                         seed_pattern>>]_vars

\* A resize to the current size of a paused simulation that has grown and holds
\* more particles than max_particles().
C10_Witness ==
    /\ last.op = "resize"
    /\ last.dims = <<grid_width, grid_height>>
    /\ sticks >= 1
    /\ paused
    /\ num_particles > MaxParticles(grid_width, grid_height)

\* C11: max_particles() returns max(grid_width * grid_height / 5, 100) with integer
\* division, so it is at least 100, and no grid of a larger or equal area has a
\* smaller capacity.
C11_CapacityFloorMonotone ==
    last.op = "max_particles"
        => LET area == grid_width * grid_height
               fifth == area \div 5
           IN  /\ last.ret = (IF fifth >= 100 THEN fifth ELSE 100)
               /\ last.ret >= 100
               /\ \A w \in SmallSizes, h \in SmallSizes :
                      w * h >= area => MaxParticles(w, h) >= last.ret

\* max_particles() has returned the floor on a grid whose fifth is below it.
C11_Witness ==
    /\ last.op = "max_particles"
    /\ (grid_width * grid_height) \div 5 < 100
    /\ last.ret = 100

SubOccupied(cx, cy, dx, dy, canvas_width, canvas_height) ==
    LET sx == ((cx * 2 + dx) * grid_width) \div (canvas_width * 2)
        sy == ((cy * 4 + dy) * grid_height) \div (canvas_height * 4)
    IN  sx < grid_width /\ sy < grid_height /\ (sy * grid_width + sx) \in Occupied

C14_SizeIsMultiple ==
    last.op = "calculate_simulation_size"
        => /\ last.ret[1] >= 64
           /\ last.ret[2] >= 64
           /\ last.ret[1] % (last.args[1] * 2) = 0
           /\ last.ret[2] % (last.args[2] * 4) = 0

\* C14, amended: the size returned is at least 64 cells per axis and at least the
\* sub-cell resolution; it is the sub-cell resolution itself where that is 64 or
\* more, and 64 where it is less.
C14_SizeIsFlooredResolution ==
    last.op = "calculate_simulation_size"
        => LET sub_width == last.args[1] * 2
               sub_height == last.args[2] * 4
           IN  /\ last.ret[1] >= 64 /\ last.ret[1] >= sub_width
               /\ last.ret[2] >= 64 /\ last.ret[2] >= sub_height
               /\ last.ret[1] = (IF sub_width >= 64 THEN sub_width ELSE 64)
               /\ last.ret[2] = (IF sub_height >= 64 THEN sub_height ELSE 64)

\* A canvas of 5 x 20 glyphs: the width is floored to 64, which 10 does not divide,
\* and the height is the 80 sub-cells.
C14_Witness ==
    /\ last.op = "calculate_simulation_size"
    /\ last.args = <<5, 20>>
    /\ last.ret = <<64, 80>>

\* C15: with num_particles = 100 and stickiness 1.0 on a seeded 64 x 64 grid that
\* is not paused, calling step() again and again reaches particles_stuck = 100;
\* is_complete() is false before that and stays true once it is true.
C15_GrowsToTarget ==
    /\ <>(particles_stuck = GrowthTarget)
    /\ [](particles_stuck < GrowthTarget => ~IsComplete)
    /\ [][IsComplete => IsComplete']_vars

\* C16: reset_with_seed(pattern), in whatever state it is called, leaves paused
\* false and seed_pattern = pattern, and leaves occupied exactly the cells the
\* pattern stamps, each with arrival index 0: a cell occupied before the call stays
\* occupied only if the pattern stamps it.
C16_ResetReplacesStructure ==
    [][last'.op = "reset_with_seed"
          => LET stamped == {c[2] * grid_width + c[1] : c \in stamps'}
             IN  /\ paused' = FALSE
                 /\ seed_pattern' = last'.args[1]
                 /\ DOMAIN grid' = stamped
                 /\ \E draws \in DrawSets(seed_pattern', grid_width, grid_height) :
                        stamped = Seeded(seed_pattern', grid_width, grid_height, draws).occ
                 /\ \A i \in DOMAIN grid' : grid'[i] = 0
                 /\ \A i \in DOMAIN grid : i \in DOMAIN grid' => i \in stamped]_vars

\* reset_with_seed(Point) has left its single cell on a simulation whose
\* num_particles had been adjusted down to 100.
C16_Witness ==
    /\ last.op = "reset_with_seed"
    /\ last.args = <<"Point">>
    /\ num_particles = MinParticles
    /\ OccupiedCount = 1
    /\ ~paused

\* C17: on every grid of at least 64 x 64 cells, after reset_with_seed(Line) the
\* occupied cells are the columns width/2 - min(20, width/4) up to, not including,
\* width/2 + min(20, width/4) of row height/2, and particles_stuck is their number,
\* 2 * min(20, width/4).
C17_LineIsCentredRun ==
    (last.op = "reset_with_seed" /\ last.args = <<"Line">>)
        => LET quarter == grid_width \div 4
               half_len == IF quarter > 20 THEN 20 ELSE quarter
               row == grid_height \div 2
               first == grid_width \div 2 - half_len
               beyond == grid_width \div 2 + half_len
           IN  /\ Occupied = {row * grid_width + col : col \in first .. beyond - 1}
               /\ OccupiedCount = 2 * half_len
               /\ particles_stuck = 2 * half_len

\* The Line seed on a grid whose quarter width, 21, is above the cap: 40 cells.
C17_Witness ==
    /\ last.op = "reset_with_seed"
    /\ last.args = <<"Line">>
    /\ grid_width = 84
    /\ particles_stuck = 40

\* C18: in every state reached through new, reset_with_seed, step, resize,
\* adjust_particles and toggle_pause, progress() is in [0.0, 1.0]: particles_stuck
\* is at most num_particles.
C18_ProgressAtMostOne ==
    /\ ProgressMilli >= 0
    /\ ProgressMilli <= 1000
    /\ particles_stuck <= num_particles

\* C19: step() returns false exactly when is_complete() holds as the call returns,
\* and true exactly when it does not.
C19_FalseIffComplete ==
    (last.op = "step" /\ pc = "idle" /\ last.ret \in {"true", "false"})
        => (last.ret = "false" <=> IsComplete)

\* The mask of a sub-position, and the pattern of a set of sub-positions: the masks
\* of its members, or-ed.
DotPositions == (0 .. 1) \X (0 .. 3)
MaskOf(d) == BrailleDots[d[1] + 1][d[2] + 1]
RECURSIVE PatternOf(_)
PatternOf(ds) ==
    IF ds = {} THEN 0
    ELSE LET d == CHOOSE e \in ds : TRUE
         IN  BitOr(MaskOf(d), PatternOf(ds \ {d}))

\* The masks are eight different single bits with the corners as stated, and no two
\* sets of sub-positions have the same pattern.
DotsAreDistinctBits ==
    /\ \A d \in DotPositions : MaskOf(d) \in {1, 2, 4, 8, 16, 32, 64, 128}
    /\ \A d \in DotPositions, e \in DotPositions : d # e => MaskOf(d) # MaskOf(e)
    /\ PatternOf(DotPositions) = 255
    /\ MaskOf(<<0, 0>>) = 1 /\ MaskOf(<<1, 0>>) = 8
    /\ MaskOf(<<0, 3>>) = 64 /\ MaskOf(<<1, 3>>) = 128
    /\ Cardinality({PatternOf(ds) : ds \in SUBSET DotPositions}) = 256

\* C20: the eight dot masks are pairwise disjoint single bits whose union is 0xFF,
\* with (0,0) = 0x01, (1,0) = 0x08, (0,3) = 0x40 and (1,3) = 0x80, so a pattern
\* stands for one set of sub-positions only; every character render_to_braille
\* returns is 0x2800 + the pattern of the glyph's occupied sub-positions, in
\* U+2801..U+28FF.
C20_GlyphIsPatternCodePoint ==
    /\ DotsAreDistinctBits
    /\ last.op = "render_to_braille"
           => \A k \in DOMAIN last.ret :
                  LET cell == last.ret[k]
                      dots == {d \in DotPositions :
                                  SubOccupied(cell.x, cell.y, d[1], d[2],
                                              last.args[1], last.args[2])}
                  IN  /\ cell.char = 10240 + PatternOf(dots)
                      /\ cell.char >= 10241
                      /\ cell.char <= 10495

\* A render has returned a glyph of several dots, the bottom right one among them.
C20_Witness ==
    /\ last.op = "render_to_braille"
    /\ \E k \in DOMAIN last.ret :
           /\ last.ret[k].char - 10240 > 128
           /\ last.ret[k].char <= 10495

\* The grid slots one pass of the walk loop at (ix, iy) reads, and the one it writes
\* if it sticks, are slots the grid has.
AccessInGrid ==
    LET ix == AsUsize(particle_x, PosScale)
        iy == AsUsize(particle_y, PosScale)
    IN  Interior(ix, iy)
            => /\ \A j \in DOMAIN NeighbourOffsets :
                      LET nx == ix + NeighbourOffsets[j][1]
                          ny == iy + NeighbourOffsets[j][2]
                      IN  /\ nx >= 0 /\ nx < grid_width
                          /\ ny >= 0 /\ ny < grid_height
                          /\ ny * grid_width + nx < grid_len
               /\ iy * grid_width + ix < grid_len

\* C21: a cell that step() marks occupied is interior (1 <= x <= grid_width - 2,
\* 1 <= y <= grid_height - 2) and had an occupied neighbour before the call; step()
\* reads and writes no slot outside the grid, wherever the particle spawned.
C21_StickIsInteriorByNeighbour ==
    [][/\ pc = "walk" => AccessInGrid
       /\ (last'.op = "step" /\ grid' # grid)
              => \E ix \in 1 .. grid_width - 2, iy \in 1 .. grid_height - 2 :
                     /\ \A i \in DOMAIN grid' :
                            i # iy * grid_width + ix => (i \in DOMAIN grid /\ grid'[i] = grid[i])
                     /\ \E j \in DOMAIN NeighbourOffsets : NeighbourStuck(ix, iy, j)
      ]_vars

\* A particle that spawned left of the grid, at x < 0, has stuck to the left end of
\* the Line seed.
C21_Witness ==
    /\ last.op = "step"
    /\ last.ret = "true"
    /\ sticks >= 1
    /\ (32 * grid_width + 15) \in Occupied

\* C22: at a walk iteration whose position is interior and has an occupied
\* neighbour, step() decides the stick with exactly one random draw, however many
\* neighbours are occupied.
C22_OneDrawPerDecision ==
    LET ix == AsUsize(particle_x, PosScale)
        iy == AsUsize(particle_y, PosScale)
    IN  (/\ pc = "walk"
         /\ iter < MaxWalk
         /\ Interior(ix, iy)
         /\ \E j \in DOMAIN NeighbourOffsets : NeighbourStuck(ix, iy, j))
            => StickDraws(ix, iy, 1, 0) = {1}

\* The cells whose content differs between the grid before and after a step.
ChangedCells ==
    {i \in DOMAIN grid' : i \notin DOMAIN grid \/ grid'[i] # grid[i]}
        \cup {i \in DOMAIN grid : i \notin DOMAIN grid'}

\* C23: a step() that ends by escape (farther than 2 * spawn_radius from the
\* center) or at the end of its walk budget returns true and leaves the grid,
\* particles_stuck and max_radius as they were, as every pass of the walk does; a
\* step() that sticks changes one cell, adds 1 to particles_stuck and does not
\* lower max_radius.
C23_StepSticksOrLeavesAlone ==
    [][last'.op = "step"
          => /\ (pc = "walk" /\ (Escaped(particle_x, particle_y) \/ iter >= EscapeWalk))
                    => (last'.ret = "true" /\ pc' = "idle"
                            /\ UNCHANGED <<grid, particles_stuck, max_radius_sq>>)
             /\ \/ UNCHANGED <<grid, particles_stuck, max_radius_sq>>
                \/ /\ Cardinality(ChangedCells) = 1
                   /\ particles_stuck' = particles_stuck + 1
                   /\ max_radius_sq' >= max_radius_sq
                   /\ last'.ret = "true"]_vars

\* A particle that walked away from the seed is farther than 2 * spawn_radius from
\* the center before the walk budget is spent: step() is about to return by escape.
C23_Witness ==
    /\ pc = "walk"
    /\ Escaped(particle_x, particle_y)
    /\ iter < EscapeWalk
    /\ sticks >= 1

\* C24: growth removes no cell.  Across step(), adjust_particles, adjust_stickiness,
\* toggle_pause and a resize to the current size every occupied cell stays
\* occupied; a cell is emptied only by reset, reset_with_seed or a resize to
\* another size.
C24_CellsStayOccupied ==
    [][/\ (\/ last'.op \in {"step", "adjust_particles", "adjust_stickiness", "toggle_pause"}
           \/ last'.op = "resize" /\ last'.args = <<grid_width, grid_height>>)
              => Occupied \subseteq DOMAIN grid'
       /\ (\E i \in Occupied : i \notin DOMAIN grid')
              => \/ last'.op \in {"reset", "reset_with_seed"}
                 \/ last'.op = "resize" /\ last'.args # <<grid_width, grid_height>>
      ]_vars

\* A particle has stuck to a structure that was stepped, paused and resumed, and
\* had its stickiness adjusted: the seed and the earlier particle are still there.
C24_Witness ==
    /\ last.op = "step"
    /\ last.ret = "true"
    /\ sticks = MaxSticks
    /\ stickiness < 10
    /\ OccupiedCount >= Cardinality(stamps) + 1

\* C26: in every state reached from new(width, height) through reset_with_seed,
\* step, resize, adjust_particles, adjust_stickiness and toggle_pause, the target
\* count lies between 100 and max_particles().
C26_TargetWithinCapacity ==
    /\ num_particles >= MinParticles
    /\ num_particles <= MaxParticles(grid_width, grid_height)

\* C27: a step() leaves the arrival index of every cell that was occupied before it
\* as it was, and the index it stores is below the new particles_stuck and differs
\* from the index of every other cell step() has filled since the last reset.
C27_ArrivalIndexFixed ==
    [][last'.op = "step" /\ last'.ret = "true"
           => /\ \A i \in DOMAIN grid : i \in DOMAIN grid' /\ grid'[i] = grid[i]
              /\ \A i \in DOMAIN grid' :
                     grid'[i] # 0 => /\ grid'[i] < particles_stuck'
                                     /\ \A j \in DOMAIN grid' :
                                            grid'[j] = grid'[i] => j = i
      ]_vars

(* ---------------------------- the recorder ----------------------------- *)

\* C25: while Recording, should_capture() answers false, true, false, true, ...
\* from the first call after start(): start() leaves the skip counter at 0, a call
\* answers true exactly when the counter was 1 and flips it, and no other call of a
\* running recording touches the counter; while Idle the answer is false and the
\* recorder is left as it was.
C25_CaptureAlternates ==
    [][/\ last'.op = "start" /\ last'.ret.ok
              => recorder'.state.frame_skip_counter = 0
       /\ last'.op = "should_capture" /\ IsRecording
              => /\ last'.ret = (recorder.state.frame_skip_counter = 1)
                 /\ recorder'.state.frame_skip_counter
                        = 1 - recorder.state.frame_skip_counter
                 /\ recorder' = [recorder EXCEPT !.state.frame_skip_counter
                                                    = 1 - @]
       /\ last'.op = "should_capture" /\ ~IsRecording
              => last'.ret = FALSE /\ UNCHANGED recorder
       /\ last'.op = "capture_frame" /\ IsRecording
              => recorder'.state.frame_skip_counter = recorder.state.frame_skip_counter
      ]_vars

\* A running recording whose should_capture() has just answered true, with a frame
\* recorded before.
C25_Witness ==
    /\ IsRecording
    /\ last.op = "should_capture"
    /\ last.ret = TRUE
    /\ recorder.state.frame_count >= 1

\* C28: a Recording recorder always has its frame buffer, also after a
\* capture_frame whose add_frame failed; frame_count is the number of frames the
\* encoder has taken since start(); and a capture_frame of a running recording
\* either fails in add_frame or counts one more frame.
C28_BufferWhileRecording ==
    [][/\ IsRecording'
              => /\ recorder'.frame_buffer
                 /\ recorder'.state.frame_count = recorder'.state.encoder.frames
       /\ last'.op = "capture_frame" /\ IsRecording
              => \/ ~last'.ret.ok /\ last'.ret.msg = "add_frame"
                 \/ recorder'.state.frame_count = recorder.state.frame_count + 1
      ]_vars

\* C29: start() on a running recording returns Err("Already recording") and leaves
\* the recorder, with its encoder, frame_count and filename, as it was; stop() on
\* an idle recorder returns Err("Not recording") and stays Idle; a start() whose
\* encoder cannot be created returns Err and stays Idle; and stop() on a running
\* recording ends Idle whether or not finish() succeeds.
C29_ErrorsKeepState ==
    [][/\ last'.op = "start" /\ IsRecording
              => /\ last'.ret = Err("Already recording")
                 /\ recorder'.state = recorder.state
       /\ last'.op = "start" /\ ~IsRecording /\ ~last'.ret.ok
              => recorder'.state = Idle
       /\ last'.op = "stop" /\ ~IsRecording
              => /\ last'.ret = Err("Not recording")
                 /\ recorder'.state = Idle
       /\ last'.op = "stop" /\ IsRecording
              => recorder'.state = Idle
      ]_vars

\* A stop() whose finish() failed: the recorder is Idle.
C29_Witness ==
    /\ last.op = "stop"
    /\ ~last.ret.ok
    /\ last.ret.msg = "finish"
    /\ recorder.state = Idle

\* C30: the file name a successful stop() reports is the file the encoder of the
\* recording was created on, for every requested name, with FFmpeg and with the
\* GIF fallback.
C30_ReportsEncoderFile ==
    [][last'.op = "stop" /\ IsRecording /\ last'.ret.ok
           => last'.ret.value.filename = recorder.state.encoder.file
      ]_vars

====
